---- MODULE Spec2Model ----
(***************************************************************************)
(* Model of the FindImage plugin (spot/plugins/FindImage.py): the widget   *)
(* state built by build_gui, the host lifecycle calls, and the three user  *)
(* actions (Find image, Create Blank, Search name).                        *)
(*                                                                         *)
(* Python strings are modelled as sequences of one-character strings, so   *)
(* that strip, split, upper, slicing and the regular expression of the     *)
(* source are computed and not assumed.                                    *)
(***************************************************************************)
EXTENDS Integers, Sequences, FiniteSets, TLC

VARIABLES
    gui_up,     \* self.gui_up
    p_canvas,   \* objects of the viewer's canvas (self.viewer.get_canvas())
    ui_active,  \* UI-active flag of self.canvas (ui_set_active)
    w,          \* self.w: the widgets' values; <<>> until build_gui sets it
    size,       \* self.size, set by set_size_cb; <<>> until first set
    cb,         \* the callback the GUI thread is running ("none" when idle)
    pc,         \* position inside the running callback
    frame,      \* locals of download_image that outlive one step
    calls,      \* calls the running callback has made on fv, logger, clients
    exc         \* "none", "caught" (by the callback's except), "propagated"

vars == <<gui_up, p_canvas, ui_active, w, size, cb, pc, frame, calls, exc>>

----------------------------------------------------------------------------
(* Bounds of the model: how many of the sample texts below the user may    *)
(* type into the RA, Dec and equinox entries, and the largest value the    *)
(* user sets the size spin button to (the widget allows size_upper).       *)

NumRa == 4
NumDec == 3
NumEq == 3
MaxSize == 1

Min(a, b) == IF a < b THEN a ELSE b

----------------------------------------------------------------------------
(* Python str operations.                                                  *)

Whitespace == {" "}
Digits == {"0", "1", "2", "3", "4", "5", "6", "7", "8", "9"}
LowerAlpha == <<"a","b","c","d","e","f","g","h","i","j","k","l","m",
                "n","o","p","q","r","s","t","u","v","w","x","y","z">>
UpperAlpha == <<"A","B","C","D","E","F","G","H","I","J","K","L","M",
                "N","O","P","Q","R","S","T","U","V","W","X","Y","Z">>

RECURSIVE lstrip(_)
lstrip(s) ==
    IF s # <<>> /\ Head(s) \in Whitespace THEN lstrip(Tail(s)) ELSE s

RECURSIVE rstrip(_)
rstrip(s) ==
    IF s # <<>> /\ s[Len(s)] \in Whitespace
    THEN rstrip(SubSeq(s, 1, Len(s) - 1))
    ELSE s

\* str.strip()
strip(s) == rstrip(lstrip(s))

\* faulty variant of upper: leaves the case as written
upper_plain(s) == s

\* str.upper()
upper(s) ==
    [i \in 1..Len(s) |->
        IF \E k \in 1..26 : LowerAlpha[k] = s[i]
        THEN UpperAlpha[CHOOSE k \in 1..26 : LowerAlpha[k] = s[i]]
        ELSE s[i]]

\* c in s
contains(s, c) == \E i \in 1..Len(s) : s[i] = c

\* str.split(sep) for a one-character separator
RECURSIVE split(_, _)
split(s, sep) ==
    IF contains(s, sep)
    THEN LET i == CHOOSE k \in 1..Len(s) :
                      s[k] = sep /\ \A j \in 1..(k - 1) : s[j] # sep
         IN  <<SubSeq(s, 1, i - 1)>> \o split(SubSeq(s, i + 1, Len(s)), sep)
    ELSE <<s>>

\* s[a:b] with 0 <= a <= b (Python slice, clipped to the string)
slice(s, a, b) == SubSeq(s, a + 1, Min(b, Len(s)))

\* s[a:]
slice_from(s, a) == SubSeq(s, a + 1, Len(s))

\* length of the run of decimal digits s starts with
RECURSIVE digit_run(_)
digit_run(s) ==
    IF s # <<>> /\ Head(s) \in Digits THEN 1 + digit_run(Tail(s)) ELSE 0

\* re.findall('[0-9]+', s)
RECURSIVE findall_digits(_)
findall_digits(s) ==
    IF s = <<>> THEN <<>>
    ELSE IF Head(s) \notin Digits THEN findall_digits(Tail(s))
    ELSE LET n == digit_run(s)
         IN  <<SubSeq(s, 1, n)>> \o findall_digits(SubSeq(s, n + 1, Len(s)))

DigitValue(c) == CHOOSE v \in 0..9 : <<"0","1","2","3","4","5","6","7","8","9">>[v + 1] = c

RECURSIVE digits_value(_)
digits_value(s) ==
    IF s = <<>> THEN 0
    ELSE 10 * digits_value(SubSeq(s, 1, Len(s) - 1)) + DigitValue(s[Len(s)])

all_digits(s) == s # <<>> /\ \A i \in 1..Len(s) : s[i] \in Digits

unsigned(s) == IF s # <<>> /\ Head(s) \in {"+", "-"} THEN Tail(s) ELSE s
sign_of(s) == IF s # <<>> /\ Head(s) = "-" THEN -1 ELSE 1

\* int(s) accepts surrounding blanks, one optional sign, decimal digits
int_ok(s) == all_digits(unsigned(strip(s)))
int_value(s) == sign_of(strip(s)) * digits_value(unsigned(strip(s)))

\* float(s), for the decimal notation [sign] digits [. digits]; its value is
\* kept to whole units (the model's resolution is one second)
float_ok(s) ==
    LET u == unsigned(strip(s))
        p == split(u, ".")
    IN  \/ Len(p) = 1 /\ all_digits(p[1])
        \/ /\ Len(p) = 2
           /\ p[1] # <<>> \/ p[2] # <<>>
           /\ p[1] = <<>> \/ all_digits(p[1])
           /\ p[2] = <<>> \/ all_digits(p[2])
float_value(s) ==
    LET u == unsigned(strip(s))
    IN  sign_of(strip(s)) * digits_value(split(u, ".")[1])

\* str(n) of an integer
RECURSIVE nat_str(_)
nat_str(n) ==
    IF n < 10 THEN <<<<"0","1","2","3","4","5","6","7","8","9">>[n + 1]>>
    ELSE nat_str(n \div 10) \o nat_str(n % 10)
int_str(n) == IF n < 0 THEN <<"-">> \o nat_str(-n) ELSE nat_str(n)

----------------------------------------------------------------------------
(* The module's tables.                                                    *)

image_sources ==
  {<<"S","k","y","V","i","e","w",":"," ","D","S","S","1"," ","B","l","u","e">>,
    <<"S","k","y","V","i","e","w",":"," ","D","S","S","1"," ","R","e","d">>,
    <<"S","k","y","V","i","e","w",":"," ","D","S","S","2"," ","R","e","d">>,
    <<"S","k","y","V","i","e","w",":"," ","D","S","S","2"," ","B","l","u","e">>,
    <<"S","k","y","V","i","e","w",":"," ","D","S","S","2"," ","I","R">>,
    <<"S","k","y","V","i","e","w",":"," ","S","D","S","S","g">>,
    <<"S","k","y","V","i","e","w",":"," ","S","D","S","S","i">>,
    <<"S","k","y","V","i","e","w",":"," ","S","D","S","S","r">>,
    <<"S","k","y","V","i","e","w",":"," ","S","D","S","S","u">>,
    <<"S","k","y","V","i","e","w",":"," ","S","D","S","S","z">>,
    <<"S","k","y","V","i","e","w",":"," ","2","M","A","S","S","-","J">>,
    <<"S","k","y","V","i","e","w",":"," ","2","M","A","S","S","-","H">>,
    <<"S","k","y","V","i","e","w",":"," ","2","M","A","S","S","-","K">>,
    <<"S","k","y","V","i","e","w",":"," ","W","I","S","E"," ","3",".","4">>,
    <<"S","k","y","V","i","e","w",":"," ","W","I","S","E"," ","4",".","6">>,
    <<"S","k","y","V","i","e","w",":"," ","W","I","S","E"," ","1","2">>,
    <<"S","k","y","V","i","e","w",":"," ","W","I","S","E"," ","2","2">>,
    <<"S","k","y","V","i","e","w",":"," ","A","K","A","I","R"," ","N","6","0">>,
    <<"S","k","y","V","i","e","w",":"," ","A","K","A","I","R"," ","W","I","D","E","-","S">>,
    <<"S","k","y","V","i","e","w",":"," ","A","K","A","I","R"," ","W","I","D","E","-","L">>,
    <<"S","k","y","V","i","e","w",":"," ","A","K","A","I","R"," ","N","1","6","0">>,
    <<"S","k","y","V","i","e","w",":"," ","N","A","V","S","S">>,
    <<"S","k","y","V","i","e","w",":"," ","G","A","L","E","X"," ","N","e","a","r"," ","U","V">>,
    <<"S","k","y","V","i","e","w",":"," ","G","A","L","E","X"," ","F","a","r"," ","U","V">>,
    <<"E","S","O",":"," ","D","S","S","1">>,
    <<"E","S","O",":"," ","D","S","S","2","-","r","e","d">>,
    <<"E","S","O",":"," ","D","S","S","2","-","b","l","u","e">>,
    <<"E","S","O",":"," ","D","S","S","2","-","i","n","f","r","a","r","e","d">>,
    <<"P","a","n","S","T","A","R","R","S","-","1",":"," ","c","o","l","o","r">>,
    <<"P","a","n","S","T","A","R","R","S","-","1",":"," ","g">>,
    <<"P","a","n","S","T","A","R","R","S","-","1",":"," ","r">>,
    <<"P","a","n","S","T","A","R","R","S","-","1",":"," ","i">>,
    <<"P","a","n","S","T","A","R","R","S","-","1",":"," ","z">>,
    <<"P","a","n","S","T","A","R","R","S","-","1",":"," ","y">>,
    <<"S","T","S","c","I",":"," ","p","o","s","s","1","_","b","l","u","e">>,
    <<"S","T","S","c","I",":"," ","p","o","s","s","1","_","r","e","d">>,
    <<"S","T","S","c","I",":"," ","p","o","s","s","2","u","k","s","t","u","_","b","l","u","e">>,
    <<"S","T","S","c","I",":"," ","p","o","s","s","2","u","k","s","t","u","_","r","e","d">>,
    <<"S","T","S","c","I",":"," ","p","o","s","s","2","u","k","s","t","u","_","i","r">>,
    <<"S","D","S","S",":"," ","1","7">>}

\* dictionary keys and the literals download_image compares against
KEY_ESO == <<"E","S","O">>
KEY_PANSTARRS == <<"P","a","n","S","T","A","R","R","S","-","1">>
KEY_STSCI == <<"S","T","S","c","I">>
SKYVIEW == <<"S","K","Y","V","I","E","W">>
SDSS == <<"S","D","S","S">>
ESO == <<"E","S","O">>
PANSTARRS_1 == <<"P","A","N","S","T","A","R","R","S","-","1">>
STSCI == <<"S","T","S","C","I">>

\* A URL template is its replacement fields in order, each with the literal
\* text that precedes it, and the literal text after the last field.
service_urls ==
    (KEY_ESO :>
        [fields |-> <<
            [lit |-> "https://archive.eso.org/dss/dss?ra=", ph |-> "ra"],
            [lit |-> "&dec=", ph |-> "dec"],
            [lit |-> "&mime-type=application/x-fits&x=", ph |-> "arcmin"],
            [lit |-> "&y=", ph |-> "arcmin"],
            [lit |-> "&Sky-Survey=", ph |-> "survey"],
            [lit |-> "&equinox=", ph |-> "equinox"] >>,
         tail |-> ""])
    @@ (KEY_PANSTARRS :>
        [fields |-> <<
            [lit |-> "http://ps1images.stsci.edu/cgi-bin/ps1cutouts?pos=",
             ph |-> "pos"],
            [lit |-> "&filter=", ph |-> "filter"],
            [lit |-> "&filetypes=stack&auxiliary=data&size=", ph |-> "size"] >>,
         tail |-> "&output_size=1024&verbose=0&autoscale=99.500000&catlist="])
    @@ (KEY_STSCI :>
        [fields |-> <<
            [lit |-> "https://archive.stsci.edu/cgi-bin/dss_search?v=",
             ph |-> "survey"],
            [lit |-> "&r=", ph |-> "ra_deg"],
            [lit |-> "&d=", ph |-> "dec_deg"],
            [lit |-> "&e=", ph |-> "equinox"],
            [lit |-> "&h=", ph |-> "arcmin"],
            [lit |-> "&w=", ph |-> "arcmin"] >>,
         tail |-> "&f=fits&c=none&fov=NONE&v3="])

\* str.format(**params): KeyError when a replacement field has no parameter
format_ok(template, params) ==
    \A i \in 1..Len(template.fields) : template.fields[i].ph \in DOMAIN params

format(template, params) ==
    [fields |-> [i \in 1..Len(template.fields) |->
                    [lit |-> template.fields[i].lit,
                     ph  |-> template.fields[i].ph,
                     val |-> params[template.fields[i].ph]]],
     tail |-> template.tail]

NoUrl == [fields |-> <<>>, tail |-> ""]

----------------------------------------------------------------------------
(* Coordinate conversion.  Angles are kept as whole numbers: a right       *)
(* ascension in seconds of time (1/240 degree), a declination in           *)
(* arcseconds (1/3600 degree).                                             *)

\* wcs.hmsStrToDeg: hour, min, sec = ra.split(':'); int, int, float
hmsStrToDeg_ok(ra_str) ==
    LET f == split(ra_str, ":")
    IN  Len(f) = 3 /\ int_ok(f[1]) /\ int_ok(f[2]) /\ float_ok(f[3])
hmsStrToDeg(ra_str) ==
    LET f == split(ra_str, ":")
    IN  int_value(f[1]) * 3600 + int_value(f[2]) * 60 + float_value(f[3])

\* wcs.dmsStrToDeg: sign_deg, min, sec = dec.split(':'); a leading + or -
\* of the first field is the sign, the rest of it the degrees
dmsStrToDeg_ok(dec_str) ==
    LET f == split(dec_str, ":")
    IN  /\ Len(f) = 3
        /\ int_ok(unsigned(f[1])) /\ int_ok(f[2]) /\ float_ok(f[3])
dmsStrToDeg(dec_str) ==
    LET f == split(dec_str, ":")
    IN  sign_of(f[1]) * (int_value(unsigned(f[1])) * 3600
                         + int_value(f[2]) * 60 + float_value(f[3]))

\* ope.funkyHMStoDeg / ope.funkyDMStoDeg: the fixed-width SOSS text
\* HHMMSS.sss and [+-]DDMMSS.ss
funky_ok(s) ==
    /\ all_digits(slice(s, 0, 2)) /\ all_digits(slice(s, 2, 4))
    /\ float_ok(slice_from(s, 4)) /\ unsigned(slice_from(s, 4)) = slice_from(s, 4)
funky_value(s) ==
    digits_value(slice(s, 0, 2)) * 3600 + digits_value(slice(s, 2, 4)) * 60
    + float_value(slice_from(s, 4))
funkyHMStoDeg_ok(ra_str) == funky_ok(ra_str)
funkyHMStoDeg(ra_str) == funky_value(ra_str)
funkyDMStoDeg_ok(dec_str) == funky_ok(unsigned(dec_str))
funkyDMStoDeg(dec_str) == sign_of(dec_str) * funky_value(unsigned(dec_str))

Raised == [raised |-> TRUE]

\* the test both get_radec and get_radec_list branch on: ':' in ra_str
colon_format(ra_str) == contains(ra_str, ":")

\* FindImage.get_radec.  have_oscript: whether `from oscript.util import
\* ope` succeeds in this installation.
get_radec(wv, have_oscript) ==
    LET ra_str == strip(wv.ra)
        dec_str == strip(wv.dec)
    IN  IF colon_format(ra_str)
        THEN IF hmsStrToDeg_ok(ra_str) /\ dmsStrToDeg_ok(dec_str)
             THEN [raised |-> FALSE, ra_deg |-> hmsStrToDeg(ra_str),
                   dec_deg |-> dmsStrToDeg(dec_str)]
             ELSE Raised
        ELSE IF have_oscript /\ funkyHMStoDeg_ok(ra_str)
                /\ funkyDMStoDeg_ok(dec_str)
             THEN [raised |-> FALSE, ra_deg |-> funkyHMStoDeg(ra_str),
                   dec_deg |-> funkyDMStoDeg(dec_str)]
             ELSE Raised

\* faulty variant of get_radec_list: the Dec list is cut from the RA text
get_radec_list_copy(wv) ==
    LET ra_str == strip(wv.ra)
        dec_str == strip(wv.dec)
    IN  IF colon_format(ra_str)
        THEN [ra_list |-> split(ra_str, ":"), dec_list |-> split(ra_str, ":")]
        ELSE [ra_list |-> <<slice(ra_str, 0, 2), slice(ra_str, 2, 4),
                            slice_from(ra_str, 4)>>,
              dec_list |-> <<slice(ra_str, 0, 2), slice(ra_str, 2, 4),
                             slice_from(ra_str, 4)>>]

\* FindImage.get_radec_list
get_radec_list(wv) ==
    LET ra_str == strip(wv.ra)
        dec_str == strip(wv.dec)
    IN  IF colon_format(ra_str)
        THEN [ra_list |-> split(ra_str, ":"), dec_list |-> split(dec_str, ":")]
        ELSE [ra_list |-> <<slice(ra_str, 0, 2), slice(ra_str, 2, 4),
                            slice_from(ra_str, 4)>>,
              dec_list |-> <<slice(dec_str, 0, 2), slice(dec_str, 2, 4),
                             slice_from(dec_str, 4)>>]

----------------------------------------------------------------------------
(* download_image up to its first call on a remote service or the viewer.  *)

PCT20 == <<"%", "2", "0">>
PCT3A == <<"%", "3", "A">>
pixel_arcmin == 240

\* '{}'.format of a float holding a whole number
float_str(n) == int_str(n) \o <<".", "0">>

\* faulty variant of eso_equinox: the entry text as it is
eso_equinox_text(equinox_str) == equinox_str

\* lines 357-363: the equinox parameter of an ESO request
eso_equinox(equinox_str) ==
    LET equinox == findall_digits(equinox_str)
    IN  IF equinox = <<>> THEN int_str(2000) ELSE equinox[1]

\* faulty variant of url_key: the upper-cased name
url_key_upper(service_name, service) == service

\* the key download_image looks up in service_urls: service_name, not the
\* upper-cased service
url_key(service_name, service) == service_name

NoRequest ==
    [raised |-> FALSE, branch |-> "none", service_name |-> <<>>,
     survey |-> <<>>, url |-> NoUrl]
RaisedRequest == [NoRequest EXCEPT !.raised = TRUE]

library_request(branch, service_name, survey) ==
    [raised |-> FALSE, branch |-> branch, service_name |-> service_name,
     survey |-> survey, url |-> NoUrl]

url_request(branch, service_name, service, survey, params) ==
    LET key == url_key(service_name, service)
    IN  IF key \notin DOMAIN service_urls THEN RaisedRequest
        ELSE IF ~format_ok(service_urls[key], params) THEN RaisedRequest
        ELSE [raised |-> FALSE, branch |-> branch,
              service_name |-> service_name, survey |-> survey,
              url |-> format(service_urls[key], params)]

\* elif service == "ESO"
eso_request(wv, service_name, service, survey) ==
    LET l == get_radec_list(wv)
        ra_list == l.ra_list
        dec_list == l.dec_list
    IN  IF Len(ra_list) < 3 \/ Len(dec_list) < 3 THEN RaisedRequest
        ELSE LET ra == ra_list[1] \o PCT20 \o ra_list[2] \o PCT20 \o ra_list[3]
                 dec == dec_list[1] \o PCT20 \o dec_list[2] \o PCT20
                        \o dec_list[3]
                 equinox == eso_equinox(strip(wv.equinox))
                 params == [survey |-> survey, equinox |-> equinox,
                            ra |-> ra, dec |-> dec,
                            arcmin |-> float_str(wv.size)]
             IN  url_request("ESO", service_name, service, survey, params)

\* elif service == "PANSTARRS-1"
panstarrs_request(wv, service_name, service, survey) ==
    LET l == get_radec_list(wv)
        ra_list == IF l.ra_list[1] # <<>> /\ Head(l.ra_list[1]) = "+"
                   THEN [l.ra_list EXCEPT ![1] = Tail(l.ra_list[1])]
                   ELSE l.ra_list
        dec_list == l.dec_list
    IN  IF Len(ra_list) < 3 \/ Len(dec_list) < 3 THEN RaisedRequest
        ELSE LET pos == ra_list[1] \o PCT3A \o ra_list[2] \o PCT3A
                        \o ra_list[3] \o <<"+">> \o dec_list[1] \o PCT3A
                        \o dec_list[2] \o PCT3A \o dec_list[3]
                 params == [filter |-> survey, pos |-> pos,
                            size |-> int_str(wv.size * pixel_arcmin)]
             IN  url_request("PANSTARRS-1", service_name, service, survey,
                             params)

\* elif service == "STSCI"
stsci_request(wv, rd, service_name, service, survey) ==
    LET equinox == strip(wv.equinox)
        params == [survey |-> survey, ra_deg |-> int_str(rd.ra_deg),
                   dec_deg |-> int_str(rd.dec_deg), equinox |-> equinox,
                   arcmin |-> int_str(wv.size)]
    IN  url_request("STSCI", service_name, service, survey, params)

\* download_image, lines 282-302 and the branch taken, up to the request.
\* The SkyView, SDSS and STScI branches call get_radec a second time, on the
\* same entries and with the same result.
download_request(wv, have_oscript) ==
    LET rd == get_radec(wv, have_oscript)
        i_source == strip(wv.image_source)
        parts == split(i_source, ":")
    IN  IF rd.raised \/ Len(parts) # 2 THEN RaisedRequest
        ELSE LET service_name == strip(parts[1])
                 survey == strip(parts[2])
                 service == upper(service_name)
             IN  CASE service = SKYVIEW ->
                        library_request("SKYVIEW", service_name, survey)
                   [] service = SDSS ->
                        IF int_ok(survey)
                        THEN library_request("SDSS", service_name, survey)
                        ELSE RaisedRequest
                   [] service = ESO ->
                        eso_request(wv, service_name, service, survey)
                   [] service = PANSTARRS_1 ->
                        panstarrs_request(wv, service_name, service, survey)
                   [] service = STSCI ->
                        stsci_request(wv, rd, service_name, service, survey)
                   [] OTHER -> NoRequest

----------------------------------------------------------------------------
(* Texts the user may type into the entries, and that a name server may    *)
(* answer with.                                                            *)

\* '12:34:56', '+1:02:03', '123456', '1:2', '1:2:3:4', 'a:b:c'
RaSamples ==
    << <<"1","2",":","3","4",":","5","6">>,
       <<"+","1",":","0","2",":","0","3">>,
       <<"1","2","3","4","5","6">>,
       <<"1",":","2">>,
       <<"1",":","2",":","3",":","4">>,
       <<"a",":","b",":","c">> >>
\* '+01:02:03', '-010203', '1:2', '-1:2:3:4', 'x'
DecSamples ==
    << <<"+","0","1",":","0","2",":","0","3">>,
       <<"-","0","1","0","2","0","3">>,
       <<"1",":","2">>,
       <<"-","1",":","2",":","3",":","4">>,
       <<"x">> >>
\* 'J2000', 'B1950', 'e19.5', 'x', ' 2000 '
EqSamples ==
    << <<"J","2","0","0","0">>,
       <<"B","1","9","5","0">>,
       <<"e","1","9",".","5">>,
       <<"x">>,
       <<" ","2","0","0","0"," ">> >>

RaTexts == {RaSamples[i] : i \in 1..Min(NumRa, Len(RaSamples))}
DecTexts == {DecSamples[i] : i \in 1..Min(NumDec, Len(DecSamples))}
EqTexts == {EqSamples[i] : i \in 1..Min(NumEq, Len(EqSamples))}

----------------------------------------------------------------------------
(* State after construction, and build_gui.                                *)

PROMPT == "Please select 'Find image' to find your selected image"
INITIATING == "Initiating image download at: "
COMPLETE == "Image download complete, displayed at: "
FAILED == "Image download failed at: "

size_lower == 1
size_upper == 120
size_default == 3

CANVAS == "self.canvas"

HasWidgets == "ra" \in DOMAIN w
Idle == cb = "none"

Init ==
    /\ gui_up = FALSE
    /\ p_canvas = <<>>
    /\ ui_active = FALSE
    /\ w = [n \in {} |-> n]
    /\ size = <<>>
    /\ cb = "none"
    /\ pc = "idle"
    /\ frame = NoRequest
    /\ calls = <<>>
    /\ exc = "none"

first_source == <<"S","k","y","V","i","e","w",":"," ","D","S","S","1"," ","B","l","u","e">>

\* build_gui: fresh widgets.  Whether a combobox shows its first item or
\* nothing before the user selects one depends on the widget toolkit.
build_gui ==
    /\ Idle /\ ~gui_up
    /\ \E shown \in {first_source, <<>>} :
           w' = [image_source |-> shown, size |-> size_default,
                 ra |-> <<>>, dec |-> <<>>, equinox |-> <<>>,
                 select_image_info |-> PROMPT]
    /\ gui_up' = TRUE
    /\ UNCHANGED <<p_canvas, ui_active, size, cb, pc, frame, calls, exc>>

----------------------------------------------------------------------------
(* Host lifecycle calls.                                                   *)

in_canvas(obj, objs) == \E i \in 1..Len(objs) : objs[i] = obj

\* list.remove: drops the first occurrence
remove(objs, obj) ==
    IF in_canvas(obj, objs)
    THEN LET i == CHOOSE k \in 1..Len(objs) :
                      objs[k] = obj /\ \A j \in 1..(k - 1) : objs[j] # obj
         IN  SubSeq(objs, 1, i - 1) \o SubSeq(objs, i + 1, Len(objs))
    ELSE objs

\* self.canvas.ui_set_active(True, viewer=self.viewer)
resume_body == ui_active' = TRUE

\* faulty variant of start: adds the canvas without looking
start_always_add ==
    /\ Idle /\ HasWidgets
    /\ p_canvas' = Append(p_canvas, CANVAS)
    /\ resume_body
    /\ UNCHANGED <<gui_up, w, size, cb, pc, frame, calls, exc>>

\* FindImage.start; the host calls the lifecycle methods once the GUI has
\* been built
start ==
    /\ Idle /\ HasWidgets
    /\ p_canvas' = IF ~in_canvas(CANVAS, p_canvas)
                   THEN Append(p_canvas, CANVAS)
                   ELSE p_canvas
    /\ resume_body
    /\ UNCHANGED <<gui_up, w, size, cb, pc, frame, calls, exc>>

pause ==
    /\ Idle /\ HasWidgets
    /\ ui_active' = FALSE
    /\ UNCHANGED <<gui_up, p_canvas, w, size, cb, pc, frame, calls, exc>>

resume ==
    /\ Idle /\ HasWidgets
    /\ resume_body
    /\ UNCHANGED <<gui_up, p_canvas, w, size, cb, pc, frame, calls, exc>>

stop ==
    /\ Idle /\ HasWidgets
    /\ gui_up' = FALSE
    /\ p_canvas' = remove(p_canvas, CANVAS)
    /\ UNCHANGED <<ui_active, w, size, cb, pc, frame, calls, exc>>

----------------------------------------------------------------------------
(* The user edits the widgets (the GUI thread is idle and the GUI is up).  *)

select_source ==
    /\ Idle /\ gui_up
    /\ \E s \in image_sources : w' = [w EXCEPT !.image_source = s]
    /\ UNCHANGED <<gui_up, p_canvas, ui_active, size, cb, pc, frame, calls, exc>>

\* the spin button changes and calls set_size_cb(w, val)
set_size_cb ==
    /\ Idle /\ gui_up
    /\ \E val \in size_lower..Min(MaxSize, size_upper) :
           /\ val # w.size
           /\ w' = [w EXCEPT !.size = val]
           /\ size' = <<val, val>>
    /\ UNCHANGED <<gui_up, p_canvas, ui_active, cb, pc, frame, calls, exc>>

edit_ra ==
    /\ Idle /\ gui_up
    /\ \E t \in RaTexts : w' = [w EXCEPT !.ra = t]
    /\ UNCHANGED <<gui_up, p_canvas, ui_active, size, cb, pc, frame, calls, exc>>

edit_dec ==
    /\ Idle /\ gui_up
    /\ \E t \in DecTexts : w' = [w EXCEPT !.dec = t]
    /\ UNCHANGED <<gui_up, p_canvas, ui_active, size, cb, pc, frame, calls, exc>>

edit_equinox ==
    /\ Idle /\ gui_up
    /\ \E t \in EqTexts : w' = [w EXCEPT !.equinox = t]
    /\ UNCHANGED <<gui_up, p_canvas, ui_active, size, cb, pc, frame, calls, exc>>

----------------------------------------------------------------------------
(* The 'Find image' click: find_image_cb and download_image.               *)

call(fn, arg) == [fn |-> fn, arg |-> arg]

\* faulty variant of on_exception: the status label is not updated
on_exception_silent(made) ==
    /\ calls' = Append(made, call("logger.error", "failed to find image"))
    /\ exc' = "caught"
    /\ pc' = "returned"
    /\ UNCHANGED w

\* find_image_cb's except clause, after the calls made so far
on_exception(made) ==
    /\ w' = [w EXCEPT !.select_image_info = FAILED]
    /\ calls' = Append(made, call("logger.error", "failed to find image"))
    /\ exc' = "caught"
    /\ pc' = "returned"

\* lines 267-272, up to the call of download_image
find_image_cb ==
    /\ Idle /\ gui_up
    /\ cb' = "find_image_cb"
    /\ w' = [w EXCEPT !.select_image_info = INITIATING]
    /\ pc' = "download_image"
    /\ UNCHANGED <<gui_up, p_canvas, ui_active, size, frame, calls, exc>>

\* download_image up to the first remote or viewer call
download_image ==
    /\ pc = "download_image"
    /\ \E have_oscript \in BOOLEAN :
           LET req == download_request(w, have_oscript)
           IN  IF req.raised
               THEN on_exception(calls) /\ UNCHANGED frame
               ELSE /\ frame' = req
                    /\ pc' = CASE req.branch \in {"SKYVIEW", "SDSS"} -> "get_images"
                               [] req.branch = "none" -> "returned"
                               [] OTHER -> "open_uris"
                    /\ UNCHANGED <<w, calls, exc>>
    /\ UNCHANGED <<gui_up, p_canvas, ui_active, size, cb>>

\* SkyView().get_images / SDSS.get_images, then im[0].writeto(tmp_file)
get_images ==
    /\ pc = "get_images"
    /\ LET fetched == Append(calls, call("get_images", frame.survey))
           written == Append(fetched, call("writeto", "tmp_file"))
       IN  \E outcome \in {"ok", "get_images raises", "writeto raises"} :
               CASE outcome = "ok" ->
                        /\ calls' = written
                        /\ pc' = "load_file"
                        /\ UNCHANGED <<w, exc>>
                 [] outcome = "get_images raises" -> on_exception(fetched)
                 [] OTHER -> on_exception(written)
    /\ UNCHANGED <<gui_up, p_canvas, ui_active, size, cb, frame>>

\* faulty variant of load: a failed viewer call is issued again
load_retry ==
    /\ pc \in {"load_file", "open_uris"}
    /\ LET arg == IF pc = "load_file" THEN "tmp_file" ELSE frame.url
           requested == Append(calls, call(pc, arg))
       IN  \E ok \in BOOLEAN :
               IF ok
               THEN /\ calls' = requested
                    /\ w' = [w EXCEPT !.select_image_info = COMPLETE]
                    /\ pc' = "returned"
                    /\ UNCHANGED exc
               ELSE /\ calls' = requested
                    /\ UNCHANGED <<w, exc, pc>>
    /\ UNCHANGED <<gui_up, p_canvas, ui_active, size, cb, frame>>

\* the viewer call of the branch (fv.load_file or fv.open_uris), and the
\* 'complete' status after it
load ==
    /\ pc \in {"load_file", "open_uris"}
    /\ LET arg == IF pc = "load_file" THEN "tmp_file" ELSE frame.url
           requested == Append(calls, call(pc, arg))
       IN  \E ok \in BOOLEAN :
               IF ok
               THEN /\ calls' = requested
                    /\ w' = [w EXCEPT !.select_image_info = COMPLETE]
                    /\ pc' = "returned"
                    /\ UNCHANGED exc
               ELSE on_exception(requested)
    /\ UNCHANGED <<gui_up, p_canvas, ui_active, size, cb, frame>>

----------------------------------------------------------------------------
(* The 'Create Blank' click.                                               *)

\* fov_deg = 0.01 degree, in arcseconds; px_scale = 0.000047 degree, in
\* millionths of a degree; pa_deg = 0.0
fov_deg == 36
px_scale == 47
pa_deg == 0

\* dp.create_blank_image(ra_deg, dec_deg, fov_deg, px_scale, pa_deg, ...)
blank_image(ra_deg, dec_deg, fov) ==
    [ra_deg |-> ra_deg, dec_deg |-> dec_deg, fov_deg |-> fov,
     px_scale |-> px_scale, pa_deg |-> pa_deg, nothumb |-> TRUE]

\* FindImage.create_blank_image: no try/except, so what get_radec raises
\* leaves the callback
create_blank_image ==
    /\ Idle /\ gui_up
    /\ cb' = "create_blank_image"
    /\ pc' = "returned"
    /\ \E have_oscript \in BOOLEAN :
           LET rd == get_radec(w, have_oscript)
               begun == <<call("onscreen_message", "Creating blank field..."),
                          call("update_pending", "")>>
           IN  IF rd.raised
               THEN calls' = begun /\ exc' = "propagated"
               ELSE /\ calls' = Append(begun,
                                   call("set_image",
                                        blank_image(rd.ra_deg, rd.dec_deg,
                                                    fov_deg)))
                    /\ UNCHANGED exc
    /\ UNCHANGED <<gui_up, p_canvas, ui_active, w, size, frame>>

----------------------------------------------------------------------------
(* The 'Search name' click.                                                *)

\* answers of srvbank.get_name_server(server) and namesvc.search(name)
NameAnswers == {"no server", "search raises", "not a pair", "pair"}

\* a call that returned ret
returned(fn, arg, ret) == [fn |-> fn, arg |-> arg, ret |-> ret]

\* the calls of getname_cb's try block, and of its except clause
name_query(answer, ra_str, dec_str) ==
    CASE answer = "no server" -> <<call("get_name_server", "server")>>
      [] answer = "search raises" ->
            <<call("get_name_server", "server"), call("search", "name")>>
      [] answer = "not a pair" ->
            <<call("get_name_server", "server"),
              returned("search", "name", <<ra_str>>)>>
      [] OTHER ->
            <<call("get_name_server", "server"),
              returned("search", "name", <<ra_str, dec_str>>)>>
name_error ==
    <<call("logger.error", "Name service query exception"),
      call("show_error", "Name service query exception")>>

\* faulty variant of getname_cb: the RA entry is set before the answer is
\* known to be a pair
getname_cb_ra_first ==
    /\ Idle /\ gui_up
    /\ cb' = "getname_cb"
    /\ pc' = "returned"
    /\ \E answer \in NameAnswers, ra_str \in RaTexts, dec_str \in DecTexts :
           IF answer = "pair"
           THEN /\ w' = [w EXCEPT !.ra = ra_str, !.dec = dec_str]
                /\ calls' = name_query(answer, ra_str, dec_str)
                /\ UNCHANGED exc
           ELSE /\ calls' = name_query(answer, ra_str, dec_str) \o name_error
                /\ exc' = "caught"
                /\ w' = IF answer = "not a pair"
                        THEN [w EXCEPT !.ra = ra_str]
                        ELSE w
    /\ UNCHANGED <<gui_up, p_canvas, ui_active, size, frame>>

\* FindImage.getname_cb
getname_cb ==
    /\ Idle /\ gui_up
    /\ cb' = "getname_cb"
    /\ pc' = "returned"
    /\ \E answer \in NameAnswers, ra_str \in RaTexts, dec_str \in DecTexts :
           IF answer = "pair"
           THEN /\ w' = [w EXCEPT !.ra = ra_str, !.dec = dec_str]
                /\ calls' = name_query(answer, ra_str, dec_str)
                /\ UNCHANGED exc
           ELSE /\ calls' = name_query(answer, ra_str, dec_str) \o name_error
                /\ exc' = "caught"
                /\ UNCHANGED w
    /\ UNCHANGED <<gui_up, p_canvas, ui_active, size, frame>>

----------------------------------------------------------------------------
(* The callback returns to the GUI event loop; its frame is dropped.       *)

event_loop ==
    /\ pc = "returned"
    /\ cb' = "none"
    /\ pc' = "idle"
    /\ frame' = NoRequest
    /\ calls' = <<>>
    /\ exc' = "none"
    /\ UNCHANGED <<gui_up, p_canvas, ui_active, w, size>>

Next ==
    \/ build_gui
    \/ select_source
    \/ set_size_cb
    \/ edit_ra
    \/ edit_dec
    \/ edit_equinox
    \/ find_image_cb
    \/ download_image
    \/ get_images
    \/ load
    \/ create_blank_image
    \/ getname_cb
    \/ event_loop

Spec == Init /\ [][Next]_vars

NextLifecycle ==
    \/ build_gui
    \/ start
    \/ pause
    \/ resume
    \/ stop
    \/ select_source
    \/ set_size_cb

SpecLifecycle == Init /\ [][NextLifecycle]_vars

----------------------------------------------------------------------------
(* Properties.                                                             *)

count_calls(fns) == Cardinality({i \in 1..Len(calls) : calls[i].fn \in fns})
Fetches == count_calls({"get_images"})
Loads == count_calls({"load_file", "open_uris"})
called(fn) == \E i \in 1..Len(calls) : calls[i].fn = fn
opened_url == calls[CHOOSE i \in 1..Len(calls) : calls[i].fn = "open_uris"].arg

\* the text a formatted URL carries for the replacement field ph
url_field(url, ph) ==
    LET i == CHOOSE k \in 1..Len(url.fields) : url.fields[k].ph = ph
    IN  url.fields[i].val

\* the service name of an image source: the text before the ':'
service_of(source) == strip(split(strip(source), ":")[1])
Listed == HasWidgets /\ w.image_source \in image_sources
InFindImage == cb = "find_image_cb"

\* C1: every user action catches whatever one of its steps raises, logs an
\* error and shows a status or error string; nothing propagates out of the
\* callback.
C1_EveryActionCatches ==
    pc = "returned" =>
        /\ exc # "propagated"
        /\ exc = "caught" =>
              /\ called("logger.error")
              /\ called("show_error") \/ w.select_image_info = FAILED

\* C2: one 'Find image' click issues at most one remote fetch and at most
\* one viewer load request, and once a step has failed the click does
\* nothing more than log the error and return.
C2_SingleDownload ==
    InFindImage =>
        /\ Fetches <= 1
        /\ Loads <= 1
        /\ exc = "caught" =>
              /\ pc = "returned"
              /\ calls[Len(calls)].fn = "logger.error"

C2_Witness ==
    /\ InFindImage /\ exc = "caught" /\ pc = "returned"
    /\ Fetches = 1 /\ Loads = 1

\* the request download_image builds for a source with well-formed entries
sample_widgets(source) ==
    [image_source |-> source, size |-> size_default, ra |-> RaSamples[1],
     dec |-> DecSamples[1], equinox |-> EqSamples[1],
     select_image_info |-> PROMPT]
sample_request(source) == download_request(sample_widgets(source), TRUE)
UrlServices ==
    {service_of(s) : s \in {t \in image_sources : sample_request(t).url # NoUrl}}
LibraryServices ==
    {service_of(s) : s \in {t \in image_sources :
                               sample_request(t).branch \in {"SKYVIEW", "SDSS"}}}

C3_Partition(n_url, n_library) ==
    /\ Cardinality(UrlServices) = n_url
    /\ Cardinality(LibraryServices) = n_library
    /\ UrlServices \cap LibraryServices = {}
    /\ pc = "open_uris" =>
          /\ frame.service_name \in UrlServices
          /\ frame.service_name \in DOMAIN service_urls
          /\ frame.url.tail = service_urls[frame.service_name].tail
    /\ pc \in {"get_images", "load_file"} =>
          /\ frame.service_name \in LibraryServices
          /\ frame.url = NoUrl

\* C3 as stated: five services are reached through a service_urls template
\* and fv.open_uris, two through a library client, and no service both ways.
C3_FiveUrlServices == C3_Partition(5, 2)

\* C3 as amended: three services (ESO, PanSTARRS-1, STScI) are reached
\* through a service_urls template and fv.open_uris, two (SkyView, SDSS)
\* through a library client, and no service both ways.
C3_ThreeUrlServices == C3_Partition(3, 2)

C3_Witness ==
    /\ pc = "open_uris" /\ frame.service_name = KEY_STSCI
    /\ frame.url.tail = "&f=fits&c=none&fov=NONE&v3="

\* the entries make download_image raise whatever the source: get_radec
\* raises, or a URL of the source's service needs a list of three fields
\* that get_radec_list does not give
coordinate_fault ==
    \/ get_radec(w, FALSE).raised
    \/ /\ upper(service_of(w.image_source)) \in {ESO, PANSTARRS_1}
       /\ \/ Len(get_radec_list(w).ra_list) < 3
          \/ Len(get_radec_list(w).dec_list) < 3

\* C4: for a listed source the service name, compared in upper case,
\* selects exactly one handler; a URL handler finds its template under the
\* name as written and fills every replacement field; so a click on a
\* listed source fails before its request only because of the coordinates
\* and never ends without a request.
C4_ListedSourceHandled ==
    (InFindImage /\ Listed /\ pc # "download_image") =>
        LET service == upper(service_of(w.image_source))
        IN  /\ Len(split(w.image_source, ":")) = 2
            /\ Cardinality({b \in {SKYVIEW, SDSS, ESO, PANSTARRS_1, STSCI} :
                               b = service}) = 1
            /\ Loads + Fetches = 0 /\ exc = "caught" => coordinate_fault
            /\ exc = "none" =>
                  /\ upper(frame.service_name) = service
                  /\ frame.branch # "none"
                  /\ frame.branch \in {"ESO", "PANSTARRS-1", "STSCI"} =>
                        /\ frame.service_name \in DOMAIN service_urls
                        /\ Len(frame.url.fields)
                             = Len(service_urls[frame.service_name].fields)

C4_Witness ==
    /\ InFindImage /\ pc = "open_uris"
    /\ frame.service_name = KEY_PANSTARRS
    /\ Len(frame.url.fields) = 3

\* C5: the blank image handed to the viewer is centred on the parsed RA/Dec
\* and its field of view is the Size setting (arcminutes, here in
\* arcseconds).
C5_BlankFovIsSize ==
    \A i \in 1..Len(calls) :
        calls[i].fn = "set_image" =>
            /\ ~get_radec(w, TRUE).raised
            /\ calls[i].arg.ra_deg = get_radec(w, TRUE).ra_deg
            /\ calls[i].arg.dec_deg = get_radec(w, TRUE).dec_deg
            /\ calls[i].arg.fov_deg = 60 * w.size

\* the answer search gave, when getname_cb got one
search_answer(cs) ==
    LET i == CHOOSE k \in 1..Len(cs) : cs[k].fn = "search"
    IN  IF "ret" \in DOMAIN cs[i] THEN cs[i].ret ELSE <<>>
got_pair(cs) ==
    /\ \E k \in 1..Len(cs) : cs[k].fn = "search"
    /\ Len(search_answer(cs)) = 2

\* C6: 'Search name' sets the RA and Dec entries to the pair search
\* returned; when the lookup or the search raises or gives no pair it
\* leaves both entries as they were and shows the error through
\* fv.show_error; in both cases the source, size, equinox and status
\* widgets are unchanged.
C6_SearchNameFrame ==
    [][(cb = "none" /\ cb' = "getname_cb") =>
          /\ w'.image_source = w.image_source
          /\ w'.size = w.size
          /\ w'.equinox = w.equinox
          /\ w'.select_image_info = w.select_image_info
          /\ IF got_pair(calls')
             THEN /\ w'.ra = search_answer(calls')[1]
                  /\ w'.dec = search_answer(calls')[2]
             ELSE /\ w'.ra = w.ra
                  /\ w'.dec = w.dec
                  /\ calls'[Len(calls')].fn = "show_error"]_vars

C6_Witness ==
    /\ cb = "getname_cb" /\ exc = "caught" /\ called("show_error")
    /\ called("search") /\ ~got_pair(calls)
    /\ w.ra = RaSamples[1] /\ w.dec = DecSamples[1]

\* C7: during a 'Find image' click the status is 'Initiating ...' until the
\* click ends; when it returns for a listed source the status is
\* 'complete' or 'failed', 'complete' exactly when the viewer load request
\* was issued and returned, 'failed' exactly when a step raised.
C7_StatusOrdering ==
    InFindImage =>
        /\ pc # "returned" => w.select_image_info = INITIATING
        /\ (pc = "returned" /\ Listed) =>
              /\ w.select_image_info \in {COMPLETE, FAILED}
              /\ w.select_image_info = COMPLETE <=> (Loads = 1 /\ exc = "none")
              /\ w.select_image_info = FAILED <=> exc = "caught"

C7_Witness ==
    /\ InFindImage /\ pc = "returned" /\ Listed
    /\ w.select_image_info = FAILED /\ Loads = 1

\* the first maximal run of decimal digits of s, <<>> when s has no digit
first_digit_run(s) ==
    IF \A i \in 1..Len(s) : s[i] \notin Digits THEN <<>>
    ELSE LET a == CHOOSE i \in 1..Len(s) :
                      s[i] \in Digits /\ \A j \in 1..(i - 1) : s[j] \notin Digits
             b == CHOOSE i \in a..Len(s) :
                      /\ \A j \in a..i : s[j] \in Digits
                      /\ i = Len(s) \/ s[i + 1] \notin Digits
         IN  SubSeq(s, a, b)

\* C8: the equinox of an ESO request URL is the first maximal run of
\* decimal digits of the stripped equinox entry, 2000 when the entry has no
\* digit; it consists of digits only.
C8_EsoEquinoxDigits ==
    (InFindImage /\ frame.branch = "ESO") =>
        LET e == url_field(frame.url, "equinox")
            run == first_digit_run(strip(w.equinox))
        IN  /\ e = IF run = <<>> THEN <<"2", "0", "0", "0">> ELSE run
            /\ \A i \in 1..Len(e) : e[i] \in Digits
            /\ called("open_uris") => opened_url = frame.url

C8_Witness ==
    /\ InFindImage /\ frame.branch = "ESO" /\ called("open_uris")
    /\ w.equinox = EqSamples[3]
    /\ url_field(opened_url, "equinox") = <<"1", "9">>

\* RA and Dec as lists, the format decided by the RA entry alone
radec_lists ==
    LET ra_str == strip(w.ra)
        dec_str == strip(w.dec)
    IN  IF contains(ra_str, ":")
        THEN [ra |-> split(ra_str, ":"), dec |-> split(dec_str, ":")]
        ELSE [ra |-> <<slice(ra_str, 0, 2), slice(ra_str, 2, 4),
                       slice_from(ra_str, 4)>>,
              dec |-> <<slice(dec_str, 0, 2), slice(dec_str, 2, 4),
                        slice_from(dec_str, 4)>>]
three_fields == Len(radec_lists.ra) >= 3 /\ Len(radec_lists.dec) >= 3
join3(l, sep) == l[1] \o sep \o l[2] \o sep \o l[3]
no_plus(l) ==
    IF l[1] # <<>> /\ Head(l[1]) = "+" THEN [l EXCEPT ![1] = Tail(l[1])] ELSE l
ListClick ==
    /\ InFindImage /\ pc = "returned" /\ Listed
    /\ upper(service_of(w.image_source)) \in {ESO, PANSTARRS_1}
colon_ra_short_dec ==
    /\ contains(strip(w.ra), ":")
    /\ Len(split(strip(w.dec), ":")) < 3

\* the RA and Dec fields of the opened URL are the first three components
\* of the lists, in order
url_has_lists(ra_list, dec_list) ==
    IF upper(service_of(w.image_source)) = ESO
    THEN /\ url_field(opened_url, "ra") = join3(ra_list, PCT20)
         /\ url_field(opened_url, "dec") = join3(dec_list, PCT20)
    ELSE url_field(opened_url, "pos")
            = join3(ra_list, PCT3A) \o <<"+">> \o join3(dec_list, PCT3A)

\* C9 as stated: for an ESO or PanSTARRS-1 source, a click with a
\* colon-separated RA and a Dec of fewer than three ':' fields ends 'failed'
\* with no fv.open_uris call, and a click whose two lists have at least
\* three fields opens exactly one URL, whose RA and Dec fields are the
\* first three components of each list in order.
C9_ThreeFieldsOpenUrl ==
    ListClick =>
        /\ colon_ra_short_dec =>
              (w.select_image_info = FAILED /\ ~called("open_uris"))
        /\ three_fields =>
              /\ count_calls({"open_uris"}) = 1
              /\ url_has_lists(radec_lists.ra, radec_lists.dec)

\* C9 as amended: the first part as stated; a click opens at most one URL;
\* a URL is opened only when both lists have at least three fields, and its
\* RA and Dec fields are then the first three components of each list in
\* order, PanSTARRS-1 dropping a leading '+' of the first RA component; and
\* with both lists of three fields no URL is opened only when get_radec
\* raises on the same entries.
C9_OpenedUrlHasLists ==
    ListClick =>
        /\ colon_ra_short_dec =>
              (w.select_image_info = FAILED /\ ~called("open_uris"))
        /\ count_calls({"open_uris"}) <= 1
        /\ called("open_uris") =>
              /\ three_fields
              /\ url_has_lists(IF upper(service_of(w.image_source)) = ESO
                               THEN radec_lists.ra
                               ELSE no_plus(radec_lists.ra),
                               radec_lists.dec)
        /\ (three_fields /\ ~called("open_uris")) => get_radec(w, FALSE).raised

C9_Witness ==
    /\ ListClick /\ called("open_uris")
    /\ upper(service_of(w.image_source)) = PANSTARRS_1
    /\ w.ra = RaSamples[2]
    /\ url_field(opened_url, "pos")
         = <<"1">> \o PCT3A \o <<"0", "2">> \o PCT3A \o <<"0", "3">> \o <<"+">>
           \o join3(split(w.dec, ":"), PCT3A)

contained == in_canvas(CANVAS, p_canvas)
at_most_once(objs) == Cardinality({i \in 1..Len(objs) : objs[i] = CANVAS}) <= 1

\* C10 as stated: the plugin canvas is in the viewer's canvas at most
\* once; it is contained and UI-active right after start or resume,
\* UI-inactive right after pause, and after stop it is not contained and
\* gui_up is False.
C10_ContainedAfterResume ==
    [][/\ at_most_once(p_canvas')
       /\ (start \/ resume) => (in_canvas(CANVAS, p_canvas') /\ ui_active')
       /\ pause => ~ui_active'
       /\ stop => (~in_canvas(CANVAS, p_canvas') /\ ~gui_up')]_vars

\* C10 as amended: the plugin canvas is in the viewer's canvas at most
\* once; it is contained and UI-active right after start; right after
\* resume it is UI-active, and contained exactly if it was before; right
\* after pause it is UI-inactive; after stop it is not contained and gui_up
\* is False.
C10_Lifecycle ==
    [][/\ at_most_once(p_canvas')
       /\ start => (in_canvas(CANVAS, p_canvas') /\ ui_active')
       /\ resume => (ui_active' /\ p_canvas' = p_canvas)
       /\ pause => (~ui_active' /\ p_canvas' = p_canvas)
       /\ stop => (~in_canvas(CANVAS, p_canvas') /\ ~gui_up')]_vars

C10_Witness ==
    /\ HasWidgets /\ ~gui_up /\ ui_active
    /\ ~contained /\ w.image_source # <<>>

====
